---- MODULE Spec2Model ----
(***************************************************************************)
(* The boost-factor pipeline of ADSBoostPipeline (adsboost/app.py).         *)
(*                                                                         *)
(* Python values are tagged records, a dict is a function whose domain is   *)
(* the set of keys present, a float is an exact rational <<num, den>>, and  *)
(* a call either returns a value or raises: [ok |-> TRUE, v |-> value] or   *)
(* [ok |-> FALSE, err |-> exception name].                                  *)
(***************************************************************************)
EXTENDS Integers, Sequences, FiniteSets, TLC

VARIABLES
    config,        \* self.config: the configuration loaded at import
    now,           \* the date datetime.now() falls on, <<y, m, d>>
    app_globals,   \* the names bound in the namespace of adsboost/app.py
    request,       \* the record of the call in progress or last made
    pc,            \* position of the call in progress
    boost_factors, \* what compute_boost_factors returned or raised
    outcome,       \* how the last call ended
    db,            \* rows of the boost_factors table
    sent,          \* messages handed to send_message
    logged,        \* what logger.error wrote during the call, in order
    calls,         \* the scoring calls of the parallel workers, each with its locals
    stores,        \* the store_boost_factors calls of the parallel workers
    run            \* the batch run of run.py: its loops, and what it handed on

vars == <<config, now, app_globals, request, pc, boost_factors, outcome, db, sent, logged, calls,
          stores, run>>

-----------------------------------------------------------------------------
(* Python values *)

None == [t |-> "none"]
Absent == [t |-> "absent"]
Str(s) == [t |-> "str", s |-> s]
Bool(b) == [t |-> "bool", b |-> b]
Num(n) == [t |-> "int", n |-> n]
\* the text "YYYY-MM-DD" with the three numeric fields y, m, d
DateStr(y, m, d) == [t |-> "datestr", y |-> y, m |-> m, d |-> d]
List(l) == [t |-> "list", l |-> l]
Dict(d) == [t |-> "dict", d |-> d]

EmptyDict == Dict([k \in {} |-> None])

IsStr(v) == v.t \in {"str", "datestr"}

\* bool(v)
Truthy(v) ==
    CASE v.t = "none" -> FALSE
      [] v.t = "str" -> v.s # ""
      [] v.t = "datestr" -> TRUE
      [] v.t = "bool" -> v.b
      [] v.t = "int" -> v.n # 0
      [] v.t = "list" -> Len(v.l) > 0
      [] v.t = "dict" -> DOMAIN v.d # {}
      [] OTHER -> FALSE

\* d.get(key, default) on a dict d
Get(dict, key, default) == IF key \in DOMAIN dict.d THEN dict.d[key] ELSE default

\* a dict from a function that marks the keys left out with Absent
MkDict(f) == Dict([k \in {x \in DOMAIN f : f[x].t # "absent"} |-> f[k]])

NoResult == [ok |-> FALSE, err |-> "none"]
Ok(v) == [ok |-> TRUE, v |-> v]
Raise(e) == [ok |-> FALSE, err |-> e]

-----------------------------------------------------------------------------
(* Exact arithmetic on floats *)

RECURSIVE Gcd(_, _)
Gcd(a, b) == IF b = 0 THEN a ELSE Gcd(b, a % b)

Abs(x) == IF x < 0 THEN -x ELSE x

\* the fraction n/d (d # 0) in lowest terms with a positive denominator
Frac(n, d) ==
    LET g == Gcd(Abs(n), Abs(d))
        s == IF d < 0 THEN -1 ELSE 1
    IN <<(s * n) \div g, (s * d) \div g>>

Zero == <<0, 1>>
One == <<1, 1>>
RAdd(a, b) ==
    LET g == Gcd(a[2], b[2])
    IN Frac(a[1] * (b[2] \div g) + b[1] * (a[2] \div g), (a[2] \div g) * b[2])
RSub(a, b) == RAdd(a, <<-b[1], b[2]>>)
RMul(a, b) ==
    LET x == Frac(a[1], b[2])
        y == Frac(b[1], a[2])
    IN <<x[1] * y[1], x[2] * y[2]>>
RDiv(a, b) == RMul(a, Frac(b[2], b[1]))
RLe(a, b) == a[1] * b[2] <= b[1] * a[2]
RLt(a, b) == a[1] * b[2] < b[1] * a[2]
RMax(a, b) == IF RLt(a, b) THEN b ELSE a

-----------------------------------------------------------------------------
(* Text operations, on the strings the model draws from *)

\* str.lower()
Lower(s) ==
    CASE s = "Article" -> "article"
      [] s = "General" -> "general"
      [] s = "Astronomy" -> "astronomy"
      [] s = "Earth Science" -> "earth science"
      [] OTHER -> s

\* str.replace(' ', '_')
SpaceToUnderscore(s) ==
    CASE s = "earth science" -> "earth_science"
      [] s = "Earth Science" -> "Earth_Science"
      [] OTHER -> s

-----------------------------------------------------------------------------
(* Dates: datetime.strptime(s, '%Y-%m-%d') and the day count of a difference *)

IsLeap(y) == (y % 4 = 0) /\ ((y % 100 # 0) \/ (y % 400 = 0))

DaysInMonth(y, m) ==
    CASE m \in {4, 6, 9, 11} -> 30
      [] m = 2 -> IF IsLeap(y) THEN 29 ELSE 28
      [] OTHER -> 31

RECURSIVE DaysBeforeMonth(_, _)
DaysBeforeMonth(y, m) ==
    IF m <= 1 THEN 0 ELSE DaysBeforeMonth(y, m - 1) + DaysInMonth(y, m - 1)

\* date.toordinal(): days since 0001-01-01, plus one
ToOrdinal(y, m, d) ==
    LET p == y - 1
    IN p * 365 + (p \div 4) - (p \div 100) + (p \div 400) + DaysBeforeMonth(y, m) + d

\* strptime succeeds exactly on a YYYY-MM-DD text that names a calendar day;
\* anything else (other text, a non-string) raises, ValueError or TypeError
Strptime(v) ==
    IF v.t = "datestr" /\ v.y >= 1 /\ v.m \in 1..12 /\ v.d \in 1..DaysInMonth(v.y, v.m)
    THEN Ok(ToOrdinal(v.y, v.m, v.d))
    ELSE Raise(IF IsStr(v) THEN "ValueError" ELSE "TypeError")

\* s.endswith('-00')
EndsWithDash00(v) == v.t = "datestr" /\ v.d = 0

\* s[:-2] + '01', for a text that ends in -00
DayToOne(v) == DateStr(v.y, v.m, 1)

-----------------------------------------------------------------------------
(* The configuration: a function from the keys present to their values.     *)
(* DOCTYPE_RANKING maps a label to a rank, COLLECTION_RANKINGS a tag to a   *)
(* function from disciplines to ranks, BOOST_FACTOR_WEIGHTS a boost name to *)
(* a weight, COLLECTIONS is a sequence of discipline names.                 *)

\* self.config.get(key, default)
ConfigGet(cfg, key, default) == IF key \in DOMAIN cfg THEN cfg[key] ELSE default

EmptyTable == [k \in {} |-> 0]

Range(f) == {f[x] : x \in DOMAIN f}

Has(dict, key) == key \in DOMAIN dict.d

DefaultCollections ==
    <<"astronomy", "physics", "earth_science", "planetary_science", "heliophysics", "general">>

-----------------------------------------------------------------------------
(* compute_refereed_boost *)

\* the refereed stage without the fallback to bib_data
compute_refereed_boost_metrics_only(record) ==
    IF Has(record, "metrics") /\ record.d["metrics"].t # "dict"
    THEN Raise("AttributeError")
    ELSE IF Has(record, "metrics")
            /\ Truthy(Get(record.d["metrics"], "refereed", Bool(FALSE)))
    THEN Ok(One)
    ELSE Ok(Zero)

compute_refereed_boost(record) ==
    IF Has(record, "metrics") /\ record.d["metrics"].t # "dict"
    THEN Raise("AttributeError")
    ELSE IF Has(record, "metrics")
            /\ Truthy(Get(record.d["metrics"], "refereed", Bool(FALSE)))
    THEN Ok(One)
    ELSE IF Has(record, "bib_data") /\ record.d["bib_data"].t # "dict"
    THEN Raise("AttributeError")
    ELSE IF Has(record, "bib_data")
            /\ Truthy(Get(record.d["bib_data"], "refereed", Bool(FALSE)))
    THEN Ok(One)
    ELSE Ok(Zero)

-----------------------------------------------------------------------------
(* compute_doctype_boost *)

\* sorted(set(doctype_rank.values()))
unique_ranks(doctype_rank) == Range(doctype_rank)

\* the index enumerate() gives a rank in the ascending list of distinct ranks
RankIndex(ranks, rank) == Cardinality({r \in ranks : r < rank})

\* the score without the inversion: the lowest rank gets the lowest score
rank_to_score_uninverted(ranks, rank) ==
    Frac(RankIndex(ranks, rank), Cardinality(ranks) - 1)

\* rank_to_score[rank] = 1 - (i / (len(unique_ranks) - 1)); the caller has
\* checked that the divisor is not 0
rank_to_score(ranks, rank) ==
    RSub(One, Frac(RankIndex(ranks, rank), Cardinality(ranks) - 1))

compute_doctype_boost(cfg, record) ==
    LET hasBib == Has(record, "bib_data")
        bib == record.d["bib_data"]
        raw == Get(bib, "doctype", Str(""))
        doctype == IF hasBib THEN Lower(raw.s) ELSE ""
        doctype_rank == ConfigGet(cfg, "DOCTYPE_RANKING", EmptyTable)
        ranks == unique_ranks(doctype_rank)
    IN  IF hasBib /\ bib.t # "dict" THEN Raise("AttributeError")
        ELSE IF hasBib /\ raw.t # "str" THEN Raise("AttributeError")
        ELSE IF DOMAIN doctype_rank = {} THEN Ok(Zero)
        ELSE IF Cardinality(ranks) - 1 = 0 THEN Raise("ZeroDivisionError")
        ELSE IF doctype \in DOMAIN doctype_rank
             THEN Ok(rank_to_score(ranks, doctype_rank[doctype]))
             ELSE Ok(Zero)

-----------------------------------------------------------------------------
(* compute_recency_boost *)

DaysPerMonth == <<761, 25>>     \* 30.44
DefaultMultiplier == <<1, 10>>  \* 0.1
HorizonMonths == 24

\* the reference date of lines 147-170: Ok(ordinal of the date), or NoDate
\* where the code returns 1.0 for lack of a usable date
NoDate == [ok |-> TRUE, nodate |-> TRUE]

reference_date(pub_in, entry_date) ==
    LET Pick(pub_date, p, e) ==
            IF Truthy(pub_date) /\ Truthy(entry_date)
            THEN IF p.ok /\ e.ok THEN Ok(IF p.v <= e.v THEN p.v ELSE e.v) ELSE NoDate
            ELSE IF Truthy(pub_date)
            THEN IF p.ok THEN p ELSE NoDate
            ELSE IF Truthy(entry_date)
            THEN IF e.ok THEN e ELSE NoDate
            ELSE NoDate
        Parse(pub_date) == Pick(pub_date, Strptime(pub_date), Strptime(entry_date))
    IN  Parse(IF Truthy(pub_in) /\ EndsWithDash00(pub_in) THEN DayToOne(pub_in) ELSE pub_in)

\* (datetime.now() - reference_date).days: the reference date is a midnight,
\* so the whole days of the difference are the difference of the two dates
AgeDays(today, ref) == ToOrdinal(today[1], today[2], today[3]) - ref

\* the age with a month of 30 days
age_months_30(days) == Frac(days, 30)

age_months(days) == RDiv(<<days, 1>>, DaysPerMonth)

\* lines 176-184, for an age in whole days
decay(cfg, days) ==
    LET Reciprocal(denom) ==
            IF denom[1] = 0 THEN Raise("ZeroDivisionError") ELSE Ok(RDiv(One, denom))
        Decide(age) ==
            IF RLt(<<HorizonMonths, 1>>, age) THEN Ok(One)
            ELSE Reciprocal(RAdd(One, RMul(
                    ConfigGet(cfg, "RECENCY_BOOST_MULTIPLIER", DefaultMultiplier), age)))
    IN  Decide(age_months(days))

compute_recency_boost(cfg, record, today) ==
    LET hasBib == Has(record, "bib_data")
        bib == record.d["bib_data"]
        pub_date == IF hasBib THEN Get(bib, "pubdate", None) ELSE None
        entry_date == IF hasBib THEN Get(bib, "entry_date", None) ELSE None
        Boost(ref) ==
            IF "nodate" \in DOMAIN ref THEN Ok(One) ELSE decay(cfg, AgeDays(today, ref.v))
    IN  IF hasBib /\ bib.t # "dict" THEN Raise("AttributeError")
        ELSE IF ~Truthy(pub_date) /\ ~Truthy(entry_date) THEN Ok(One)
        ELSE IF Truthy(pub_date) /\ ~IsStr(pub_date) THEN Raise("AttributeError")
        ELSE Boost(reference_date(pub_date, entry_date))

-----------------------------------------------------------------------------
(* compute_collection_weights *)

\* str(v).lower().replace(' ', '_')
NormalizeTag(s) == SpaceToUnderscore(Lower(s))

RECURSIVE NormalizeList(_)
NormalizeList(l) ==
    IF l = <<>> THEN <<>>
    ELSE IF Truthy(Head(l)) /\ Head(l).t = "str"
         THEN <<NormalizeTag(Head(l).s)>> \o NormalizeList(Tail(l))
         ELSE NormalizeList(Tail(l))

\* lines 195-213: the record's collection tags; Raise where bib_data is read
\* and is not a mapping
record_collections(record) ==
    LET cls == record.d["classifications"]
        useCls == Has(record, "classifications") /\ Truthy(cls)
        bib == record.d["bib_data"]
        useDb == ~useCls /\ Has(record, "bib_data") /\ Truthy(Get(bib, "database", None))
        raw_values ==
            IF useCls
            THEN IF cls.t = "str" THEN List(<<cls>>)
                 ELSE IF cls.t = "list" THEN cls ELSE None
            ELSE IF useDb THEN Get(bib, "database", None) ELSE None
        Tagged(tags) == Ok(IF tags = <<>> THEN <<"general">> ELSE tags)
        Normalized(raw) ==
            Tagged(IF raw.t = "list" THEN NormalizeList(raw.l)
                   ELSE IF raw.t = "str" /\ raw.s # "" THEN <<NormalizeTag(raw.s)>>
                   ELSE <<>>)
    IN  IF ~useCls /\ Has(record, "bib_data") /\ bib.t # "dict" THEN Raise("AttributeError")
        ELSE Normalized(raw_values)

\* every rank that appears anywhere in collection_rankings
all_ranks(collection_rankings) ==
    UNION {Range(collection_rankings[c]) : c \in DOMAIN collection_rankings}

\* the weights with the order of the ranks turned round: the lowest rank weighs 1.0
rank_to_weight_ascending(ranks, rank) ==
    LET i == Cardinality({r \in ranks : r < rank})
        n == Cardinality(ranks)
    IN  IF n = 1 THEN One
        ELSE RSub(One, Frac(9 * i, 10 * (n - 1)))

\* rank_to_weight of lines 238-248: the index counts the ranks above this one
rank_to_weight(ranks, rank) ==
    LET i == Cardinality({r \in ranks : r > rank})
        n == Cardinality(ranks)
    IN  IF n = 1 THEN One
        ELSE RSub(One, Frac(9 * i, 10 * (n - 1)))

RECURSIVE max_weight(_, _, _, _)
max_weight(collection_rankings, ranks, tags, discipline) ==
    IF tags = <<>> THEN Zero
    ELSE LET rest == max_weight(collection_rankings, ranks, Tail(tags), discipline)
             tag == Head(tags)
         IN  IF tag \in DOMAIN collection_rankings
                /\ discipline \in DOMAIN collection_rankings[tag]
             THEN RMax(rank_to_weight(ranks, collection_rankings[tag][discipline]), rest)
             ELSE rest

WeightKey(collection) == collection \o "_weight"
FinalKey(collection) == collection \o "_final_boost"

AllOnes(collections) == [k \in {WeightKey(c) : c \in Range(collections)} |-> One]

\* the discipline a weight key or a final-boost key belongs to
DisciplineOf(collections, key) ==
    CHOOSE c \in Range(collections) : key \in {WeightKey(c), FinalKey(c)}

\* the resolver without the short cut for general of lines 254-257
compute_collection_weights_ranked_general(cfg, record) ==
    LET collection_rankings == ConfigGet(cfg, "COLLECTION_RANKINGS", EmptyTable)
        collections == ConfigGet(cfg, "COLLECTIONS", DefaultCollections)
        Weigh(tags, ranks) ==
            IF ~tags.ok THEN tags
            ELSE IF DOMAIN collection_rankings = {} THEN Ok(AllOnes(collections))
            ELSE IF ranks = {} THEN Ok(AllOnes(collections))
            ELSE Ok([k \in {WeightKey(c) : c \in Range(collections)} |->
                        max_weight(collection_rankings, ranks, tags.v,
                                   DisciplineOf(collections, k))])
    IN  Weigh(record_collections(record), all_ranks(collection_rankings))

compute_collection_weights(cfg, record) ==
    LET collection_rankings == ConfigGet(cfg, "COLLECTION_RANKINGS", EmptyTable)
        collections == ConfigGet(cfg, "COLLECTIONS", DefaultCollections)
        Weigh(tags, ranks) ==
            IF ~tags.ok THEN tags
            ELSE IF DOMAIN collection_rankings = {} THEN Ok(AllOnes(collections))
            ELSE IF ranks = {} THEN Ok(AllOnes(collections))
            ELSE IF \E i \in DOMAIN tags.v : tags.v[i] = "general" THEN Ok(AllOnes(collections))
            ELSE Ok([k \in {WeightKey(c) : c \in Range(collections)} |->
                        max_weight(collection_rankings, ranks, tags.v,
                                   DisciplineOf(collections, k))])
    IN  Weigh(record_collections(record), all_ranks(collection_rankings))

-----------------------------------------------------------------------------
(* compute_final_boost and compute_boost_factors *)

BoostKeys == {"refereed_boost", "doctype_boost", "recency_boost"}

DefaultWeights ==
    [refereed_boost |-> <<3, 5>>, doctype_boost |-> <<2, 5>>, recency_boost |-> Zero]

RECURSIVE SumOver(_, _)
\* sum(f[k] for k in keys)
SumOver(f, keys) ==
    IF keys = {} THEN Zero
    ELSE LET k == CHOOSE x \in keys : TRUE
         IN  RAdd(f[k], SumOver(f, keys \ {k}))

\* sum(d.values())
SumValues(f) == SumOver(f, DOMAIN f)

\* d.update(e)
Update(d, e) == [k \in DOMAIN d \cup DOMAIN e |-> IF k \in DOMAIN e THEN e[k] ELSE d[k]]

\* the weighted sum of lines 297-301 and 352-356, with the weights divided
\* by their total; the caller has checked total # 0 and the three keys
weighted_sum(boosts, weights, total) ==
    RAdd(RAdd(RMul(boosts["refereed_boost"], RDiv(weights["refereed_boost"], total)),
              RMul(boosts["doctype_boost"], RDiv(weights["doctype_boost"], total))),
         RMul(boosts["recency_boost"], RDiv(weights["recency_boost"], total)))

\* the final boosts without the collection weights: boost_factor for every discipline
compute_final_boost_unweighted(cfg, boosts, record) ==
    Ok([k \in {FinalKey(c) : c \in Range(ConfigGet(cfg, "COLLECTIONS", DefaultCollections))} |->
          boosts["boost_factor"]])

\* compute_final_boost(boost_factors, record), boosts being the dict so far
compute_final_boost(cfg, boosts, record) ==
    LET configured == ConfigGet(cfg, "BOOST_FACTOR_WEIGHTS", EmptyTable)
        weights == IF DOMAIN configured = {} THEN DefaultWeights ELSE configured
        collections == ConfigGet(cfg, "COLLECTIONS", DefaultCollections)
        Scale(collection_weights, boost_factor) ==
            IF ~collection_weights.ok THEN collection_weights
            ELSE Ok([k \in {FinalKey(c) : c \in Range(collections)} |->
                        RMul(collection_weights.v[WeightKey(DisciplineOf(collections, k))],
                             boost_factor)])
        Average(total_weight) ==
            IF RLt(Zero, total_weight) /\ ~(BoostKeys \subseteq DOMAIN weights)
            THEN Raise("KeyError")
            ELSE Scale(compute_collection_weights(cfg, record),
                       IF RLt(Zero, total_weight)
                       THEN weighted_sum(boosts, weights, total_weight)
                       ELSE RDiv(SumValues(boosts), <<Cardinality(DOMAIN boosts), 1>>))
    IN  Average(SumValues(weights))

\* lines 328-334: reading the identifiers for the log line
ReadIds(record) ==
    LET bibcode == Get(record, "bibcode", None)
        scix_id == Get(record, "scix_id", None)
    IN  IF (~Truthy(bibcode) \/ ~Truthy(scix_id))
           /\ Has(record, "bib_data") /\ record.d["bib_data"].t # "dict"
        THEN Raise("AttributeError")
        ELSE Ok(None)

compute_boost_factors(cfg, record, today) ==
    LET weights == ConfigGet(cfg, "BOOST_FACTOR_WEIGHTS", EmptyTable)
        Attach(so_far, final_boosts) ==
            IF ~final_boosts.ok THEN final_boosts ELSE Ok(Update(so_far, final_boosts.v))
        Finalize(so_far) == Attach(so_far, compute_final_boost(cfg, so_far, record))
        Collect(so_far, collection_weights) ==
            IF ~collection_weights.ok THEN collection_weights
            ELSE Finalize(Update(so_far, collection_weights.v))
        Combine(basic, total_weight) ==
            IF DOMAIN weights # {} /\ total_weight[1] = 0 THEN Raise("ZeroDivisionError")
            ELSE IF ~(BoostKeys \subseteq DOMAIN weights) THEN Raise("KeyError")
            ELSE Collect(Update(basic, [boost_factor |->
                                            weighted_sum(basic, weights, total_weight)]),
                         compute_collection_weights(cfg, record))
        Stages(ids, refereed, doctype, recency) ==
            IF ~ids.ok THEN ids
            ELSE IF ~refereed.ok THEN refereed
            ELSE IF ~doctype.ok THEN doctype
            ELSE IF ~recency.ok THEN recency
            ELSE Combine([refereed_boost |-> refereed.v, doctype_boost |-> doctype.v,
                          recency_boost |-> recency.v],
                         SumValues(weights))
    IN  Stages(ReadIds(record), compute_refereed_boost(record),
               compute_doctype_boost(cfg, record), compute_recency_boost(cfg, record, today))

-----------------------------------------------------------------------------
(* store_boost_factors, send_to_master_pipeline, process_boost_request *)

StoredDisciplines ==
    {"astronomy", "physics", "earth_science", "planetary_science", "heliophysics", "general"}

\* the columns store_boost_factors assigns, from boost_factors[...] or
\* boost_factors.get(...), which gives None for a key that is not there
StoredColumns ==
    BoostKeys \cup {WeightKey(c) : c \in StoredDisciplines}
              \cup {FinalKey(c) : c \in StoredDisciplines}

Null == <<>>

ColumnValues(factors) ==
    [k \in StoredColumns \cup {"boost_factor"} |->
        IF k \in StoredColumns /\ k \in DOMAIN factors THEN factors[k] ELSE Null]

\* the filter of lines 383-386: a NULL never equals anything
Matches(row, bibcode, scix_id) ==
    \/ bibcode.t # "none" /\ row.bibcode.t # "none" /\ row.bibcode = bibcode
    \/ scix_id.t # "none" /\ row.scix_id.t # "none" /\ row.scix_id = scix_id

NextId(rows) == Cardinality(rows) + 1

\* store_boost_factors: Ok(rows after commit) or Raise. The filter names
\* and_, which line 12 does not import: evaluating it is a NameError
store_boost_factors(globals, rows, bibcode, scix_id, factors) ==
    LET Update_(existing_record, values) ==
            (rows \ {existing_record})
            \cup {[existing_record EXCEPT
                    !.cols = [k \in DOMAIN @ |->
                                IF k \in StoredColumns THEN values[k] ELSE @[k]]]}
        Save(found, values) ==
            IF found # {}
            THEN Ok(Update_(CHOOSE row \in found : \A o \in found : row.id <= o.id, values))
            ELSE Ok(rows \cup {[id |-> NextId(rows), bibcode |-> bibcode, scix_id |-> scix_id,
                                cols |-> values]})
    IN  IF "and_" \notin globals THEN Raise("NameError")
        ELSE Save({row \in rows : Matches(row, bibcode, scix_id)}, ColumnValues(factors))

\* lines 52-54 and 56-58: an identifier from the top level, else from bib_data
ResolveId(record, key) ==
    LET top == Get(record, key, None)
    IN  IF ~Truthy(top) /\ Has(record, "bib_data")
        THEN IF record.d["bib_data"].t # "dict" THEN Raise("AttributeError")
             ELSE Ok(Get(record.d["bib_data"], key, Str("")))
        ELSE Ok(top)

\* lines 455-461: the same, with None where bib_data lacks the key
MessageId(record, key) ==
    LET top == Get(record, key, None)
    IN  IF ~Truthy(top) /\ Has(record, "bib_data")
        THEN Get(record.d["bib_data"], key, None)
        ELSE top

MessageBoosts ==
    {"doctype_boost", "refereed_boost", "recency_boost", "boost_factor"}
    \cup {FinalKey(c) : c \in StoredDisciplines}

\* the message send_to_master_pipeline hands to send_message
master_message(record, factors, today) ==
    [bibcode |-> MessageId(record, "bibcode"),
     scix_id |-> MessageId(record, "scix_id"),
     boosts |-> [k \in MessageBoosts |-> IF k \in DOMAIN factors THEN factors[k] ELSE Zero],
     timestamp |-> today]

\* the guard of line 60 switched off
no_bibcode_ignored(bibcode) == FALSE

\* line 60: if not bibcode
no_bibcode(bibcode) == ~Truthy(bibcode)

\* process_boost_request with lines 67 and 70 exchanged: send, then store
process_boost_request_send_first(cfg, req, today, globals, rows) ==
    LET End(how, f, r, m, l) ==
            [outcome |-> how, boost_factors |-> f, db |-> r, sent |-> m, logged |-> l]
        Store(factors, stored) ==
            IF ~stored.ok
            THEN End("raised", factors, rows, <<master_message(req, factors.v, today)>>,
                     <<"Error indexing boost factors", "Error processing boost request">>)
            ELSE End("returned", factors, stored.v,
                     <<master_message(req, factors.v, today)>>, <<>>)
        Send(bibcode, scix_id, factors) ==
            IF ~factors.ok
            THEN End("raised", factors, rows, <<>>, <<"Error processing boost request">>)
            ELSE Store(factors, store_boost_factors(globals, rows, bibcode, scix_id, factors.v))
        Resolved(bibcode, scix_id) ==
            IF ~bibcode.ok \/ ~scix_id.ok
            THEN End("raised", NoResult, rows, <<>>, <<"Error processing boost request">>)
            ELSE IF no_bibcode(bibcode.v)
            THEN End("returned", NoResult, rows, <<>>, <<"No bibcode provided in request">>)
            ELSE Send(bibcode.v, scix_id.v, compute_boost_factors(cfg, req, today))
    IN  Resolved(ResolveId(req, "bibcode"), ResolveId(req, "scix_id"))

\* process_boost_request(request): how it ends, what it scored, the rows and
\* the messages it leaves, and what it logged
process_boost_request(cfg, req, today, globals, rows) ==
    LET End(how, f, r, m, l) ==
            [outcome |-> how, boost_factors |-> f, db |-> r, sent |-> m, logged |-> l]
        Send(factors, stored) ==
            IF ~stored.ok
            THEN End("raised", factors, rows, <<>>,
                     <<"Error indexing boost factors", "Error processing boost request">>)
            ELSE End("returned", factors, stored.v,
                     <<master_message(req, factors.v, today)>>, <<>>)
        Store(bibcode, scix_id, factors) ==
            IF ~factors.ok
            THEN End("raised", factors, rows, <<>>, <<"Error processing boost request">>)
            ELSE Send(factors, store_boost_factors(globals, rows, bibcode, scix_id, factors.v))
        Resolved(bibcode, scix_id) ==
            IF ~bibcode.ok \/ ~scix_id.ok
            THEN End("raised", NoResult, rows, <<>>, <<"Error processing boost request">>)
            ELSE IF no_bibcode(bibcode.v)
            THEN End("returned", NoResult, rows, <<>>, <<"No bibcode provided in request">>)
            ELSE Store(bibcode.v, scix_id.v, compute_boost_factors(cfg, req, today))
    IN  Resolved(ResolveId(req, "bibcode"), ResolveId(req, "scix_id"))

-----------------------------------------------------------------------------
(* The inputs the model draws from *)

MaxRank == 3      \* ranks of a ranking table are drawn from 1..MaxRank
MaxWeight == 2    \* configured weights are drawn from 0/5 .. MaxWeight/5

\* dict with key set to v, or without key where v is Absent
With(dict, key, v) ==
    LET keys == IF v.t = "absent" THEN DOMAIN dict.d \ {key} ELSE DOMAIN dict.d \cup {key}
    IN  Dict([k \in keys |-> IF k = key THEN v ELSE dict.d[k]])

\* cfg with key set to v
CfgWith(cfg, key, v) == [k \in DOMAIN cfg \cup {key} |-> IF k = key THEN v ELSE cfg[k]]
\* cfg without key
CfgWithout(cfg, key) == [k \in DOMAIN cfg \ {key} |-> cfg[k]]

DoctypeLabels == {"article", "eprint", "abstract"}
Disciplines == {"astronomy", "physics"}

BaseConfig ==
    [DOCTYPE_RANKING |-> [article |-> 1, eprint |-> 2, abstract |-> 3],
     COLLECTION_RANKINGS |-> [astronomy |-> [astronomy |-> 2, physics |-> 1]],
     COLLECTIONS |-> <<"astronomy", "physics", "general">>,
     BOOST_FACTOR_WEIGHTS |-> DefaultWeights,
     RECENCY_BOOST_MULTIPLIER |-> <<1, 10>>]

DoctypeConfigs ==
    {CfgWithout(BaseConfig, "DOCTYPE_RANKING"), CfgWith(BaseConfig, "DOCTYPE_RANKING", EmptyTable)}
    \cup {CfgWith(BaseConfig, "DOCTYPE_RANKING", tbl) : tbl \in [DoctypeLabels -> 1..MaxRank]}

WeightConfigs ==
    {CfgWithout(BaseConfig, "BOOST_FACTOR_WEIGHTS"),
     CfgWith(BaseConfig, "BOOST_FACTOR_WEIGHTS", EmptyTable)}
    \cup {CfgWith(BaseConfig, "BOOST_FACTOR_WEIGHTS", [k \in BoostKeys |-> Frac(w[k], 5)]) :
            w \in [BoostKeys -> 0..MaxWeight]}

MultiplierConfigs ==
    {CfgWithout(BaseConfig, "RECENCY_BOOST_MULTIPLIER"),
     CfgWith(BaseConfig, "RECENCY_BOOST_MULTIPLIER", <<1, 2>>),
     CfgWith(CfgWith(BaseConfig, "RECENCY_BOOST_MULTIPLIER", <<1, 2>>),
             "BOOST_FACTOR_WEIGHTS",
             [refereed_boost |-> <<1, 5>>, doctype_boost |-> <<1, 5>>, recency_boost |-> <<3, 5>>])}

CollectionConfigs ==
    {CfgWithout(BaseConfig, "COLLECTION_RANKINGS"),
     CfgWith(BaseConfig, "COLLECTION_RANKINGS", EmptyTable),
     CfgWith(BaseConfig, "COLLECTION_RANKINGS", [astronomy |-> EmptyTable]),
     CfgWith(BaseConfig, "COLLECTION_RANKINGS", [astronomy |-> [astronomy |-> 2]]),
     CfgWith(BaseConfig, "COLLECTION_RANKINGS", [general |-> [astronomy |-> 1, general |-> 2]]),
     CfgWithout(BaseConfig, "COLLECTIONS")}
    \cup {CfgWith(BaseConfig, "COLLECTION_RANKINGS",
                   [astronomy |-> row, earth_science |-> [physics |-> r]]) :
            row \in [Disciplines -> 1..MaxRank], r \in 1..MaxRank}

Configs == DoctypeConfigs \cup WeightConfigs \cup MultiplierConfigs \cup CollectionConfigs

\* the days datetime.now() may fall on
Clocks == {<<2024, 3, 1>>, <<2026, 3, 2>>}

Start == <<2024, 3, 1>>

Later(a, b) == ToOrdinal(a[1], a[2], a[3]) < ToOrdinal(b[1], b[2], b[3])

BaseBibData ==
    Dict([doctype |-> Str("article"), pubdate |-> DateStr(2024, 1, 15),
          database |-> List(<<Str("astronomy")>>)])

BaseRecord ==
    Dict([bibcode |-> Str("b1"), bib_data |-> BaseBibData,
          metrics |-> Dict([refereed |-> Bool(TRUE)])])

\* the base record with one field of bib_data changed
WithBib(record, key, v) == With(record, "bib_data", With(record.d["bib_data"], key, v))

IdentityRecords ==
    {With(With(With(BaseRecord, "bibcode", b), "scix_id", x), "bib_data", bd) :
        b \in {Absent, None, Str(""), Str("b1")},
        x \in {Absent, Str(""), Str("s1")},
        bd \in {Absent, None, EmptyDict, BaseBibData,
                With(BaseBibData, "bibcode", Str("b2")),
                With(BaseBibData, "scix_id", Str("s2")),
                With(With(BaseBibData, "bibcode", Str("b2")), "scix_id", Str("s2"))}}

RefereedRecords ==
    {With(WithBib(BaseRecord, "refereed", r), "metrics", m) :
        r \in {Absent, None, Bool(TRUE), Bool(FALSE)},
        m \in {Absent, None, EmptyDict, Str("yes")}
              \cup {Dict([refereed |-> f]) : f \in {None, Bool(TRUE), Bool(FALSE), Str("no")}}}
    \cup {With(With(BaseRecord, "bib_data", bd), "metrics", m) :
        bd \in {Absent, EmptyDict},
        m \in {Absent, EmptyDict, Dict([refereed |-> Bool(TRUE)]), Dict([refereed |-> Bool(FALSE)])}}
    \cup {WithBib(With(BaseRecord, "metrics", Absent), "refereed", Str("no"))}

DoctypeRecords ==
    {WithBib(BaseRecord, "doctype", v) :
        v \in {Absent, None, Num(3), Str(""), Str("article"), Str("Article"), Str("eprint"),
               Str("abstract"), Str("book")}}

PubDates ==
    {Absent, None, Str(""), Str("2024"), Num(2024),
     DateStr(2022, 1, 15), DateStr(2023, 6, 0), DateStr(2023, 6, 1), DateStr(2024, 2, 30),
     DateStr(2024, 3, 1), DateStr(2024, 3, 0), DateStr(2024, 13, 1), DateStr(2025, 0, 0),
     DateStr(2024, 3, 2), DateStr(2025, 6, 14), DateStr(2026, 3, 3)}

EntryDates ==
    {Absent, None, Str("2024-01-01T00:00:00Z"), Num(2024),
     DateStr(2022, 3, 1), DateStr(2024, 3, 0), DateStr(2024, 3, 1), DateStr(2026, 12, 31)}

DateRecords ==
    {WithBib(WithBib(BaseRecord, "pubdate", p), "entry_date", e) : p \in PubDates, e \in EntryDates}

Classifications ==
    {Absent, None, Str(""), Str("General"), Str("Astronomy"), Str("Earth Science"),
     Str("physics"), Num(7), List(<<>>), List(<<None>>), List(<<Str("")>>),
     List(<<Str("astronomy"), Str("Earth Science")>>),
     List(<<Str("astronomy"), Str("General")>>),
     List(<<Str(""), Str("biology")>>)}

Databases ==
    {Absent, None, Str("astronomy"), Str("General"), Num(7),
     List(<<Str("earth science")>>), List(<<Str("physics"), Str("astronomy")>>)}

CollectionRecords ==
    {With(WithBib(BaseRecord, "database", d), "classifications", c) :
        c \in Classifications, d \in Databases}
    \cup {With(With(BaseRecord, "bib_data", bd), "classifications", c) :
        bd \in {Absent, None}, c \in {Absent, Str("Astronomy"), List(<<>>)}}

\* the requests the Master Pipeline delivers
Messages == IdentityRecords

Records ==
    IdentityRecords \cup RefereedRecords \cup DoctypeRecords \cup DateRecords
    \cup CollectionRecords

-----------------------------------------------------------------------------
(* The state machine *)

\* the names lines 1-14 of adsboost/app.py bind
AppImports ==
    {"os", "json", "pickle", "zlib", "csv", "datetime", "timedelta", "math", "models",
     "get_date", "ADSCelery", "u2asc", "contextmanager", "create_engine", "desc", "or_",
     "scoped_session", "sessionmaker", "load_config", "setup_logging"}

\* the workers that score records in parallel
Workers == {"w1", "w2"}

\* a worker that is not in a scoring call
IdleCall ==
    [pc |-> "idle", given |-> EmptyDict, record |-> EmptyDict, seen |-> EmptyTable,
     boost_factors |-> EmptyTable, clock |-> Start, met |-> FALSE, prior |-> NoResult,
     result |-> NoResult]

NoCalls == [w \in Workers |-> IdleCall]

\* a worker that is not in store_boost_factors
IdleStore ==
    [pc |-> "idle", bibcode |-> None, scix_id |-> None, boost_factors |-> EmptyTable,
     existing_record |-> 0, before |-> {}, met |-> FALSE, outcome |-> "none"]

NoStores == [w \in Workers |-> IdleStore]

\* run.py before process_bibcodes_in_batches is called
IdleRun ==
    [pc |-> "idle", bibcodes |-> <<>>, batch_size |-> 1, delay_message |-> TRUE,
     sent |-> 0, batch |-> <<>>, handed |-> <<>>, resume |-> "done",
     records_batch |-> <<>>, i |-> 0, tasks |-> <<>>, t |-> 1,
     computing |-> <<>>, collected |-> <<>>, storing |-> <<>>, sending |-> <<>>]

Init ==
    /\ config \in Configs
    /\ now = Start
    /\ app_globals = AppImports
    /\ request = EmptyDict
    /\ pc = "idle"
    /\ boost_factors = NoResult
    /\ outcome = "none"
    /\ db = {}
    /\ sent = <<>>
    /\ logged = <<>>
    /\ calls = NoCalls
    /\ stores = NoStores
    /\ run = IdleRun

\* a caller invokes compute_boost_factors(record), the scoring call
Score(record) ==
    /\ pc = "idle"
    /\ request' = record
    /\ boost_factors' = compute_boost_factors(config, record, now)
    /\ outcome' = IF boost_factors'.ok THEN "returned" ELSE "raised"
    /\ pc' = "scored"
    /\ UNCHANGED <<config, now, app_globals, db, sent, logged, calls, stores, run>>

\* handle_message_payload(message) with message the JSON text of a mapping:
\* json.loads, then process_boost_request, whose exceptions it logs and re-raises
HandleMessagePayload(message) ==
    /\ pc = "idle"
    /\ LET r == process_boost_request(config, message, now, app_globals, db)
       IN  /\ request' = message
           /\ boost_factors' = r.boost_factors
           /\ outcome' = r.outcome
           /\ db' = r.db
           /\ sent' = sent \o r.sent
           /\ logged' = IF r.outcome = "raised"
                        THEN r.logged \o <<"Error handling message payload">>
                        ELSE r.logged
    /\ pc' = "finished"
    /\ UNCHANGED <<config, now, app_globals, calls, stores, run>>

\* the caller takes the result; the worker is free again
Idle ==
    /\ pc \in {"scored", "finished"}
    /\ pc' = "idle"
    /\ request' = EmptyDict
    /\ boost_factors' = NoResult
    /\ outcome' = "none"
    /\ logged' = <<>>
    /\ UNCHANGED <<config, now, app_globals, db, sent, calls, stores, run>>

\* time passes between calls
Tick ==
    /\ pc = "idle"
    /\ \E c \in Clocks : Later(now, c) /\ now' = c
    /\ UNCHANGED <<config, app_globals, request, pc, boost_factors, outcome, db, sent, logged, calls, stores, run>>

Next ==
    \/ \E record \in Records : Score(record)
    \/ \E message \in Messages : HandleMessagePayload(message)
    \/ Idle
    \/ Tick

Spec == Init /\ [][Next]_vars

-----------------------------------------------------------------------------
(* Scoring calls in parallel: compute_boost_factors one statement at a time *)

CallRecords ==
    {BaseRecord, With(BaseRecord, "metrics", Absent), WithBib(BaseRecord, "doctype", None),
     With(BaseRecord, "classifications", Str("Earth Science"))}

CallConfigs == MultiplierConfigs \cup {CfgWithout(BaseConfig, "BOOST_FACTOR_WEIGHTS")}

InitCalls ==
    /\ config \in CallConfigs
    /\ now = Start
    /\ app_globals = AppImports
    /\ request = EmptyDict
    /\ pc = "idle"
    /\ boost_factors = NoResult
    /\ outcome = "none"
    /\ db = {}
    /\ sent = <<>>
    /\ logged = <<>>
    /\ calls = NoCalls
    /\ stores = NoStores
    /\ run = IdleRun

\* boost_factors of every call is written, as if the dict were shared
put_shared(cs, w, entries) ==
    [x \in DOMAIN cs |-> [cs[x] EXCEPT !.boost_factors = Update(@, entries)]]

\* boost_factors is a local of the call: a write reaches the writer's dict only
put(cs, w, entries) == [cs EXCEPT ![w].boost_factors = Update(@, entries)]

\* some other worker is in the middle of a call
OthersRunning(w) == \E o \in Workers \ {w} : calls[o].pc \notin {"idle", "done"}

\* worker w has run a statement: the call goes on after a value r, ends on an exception
step(cs, w, r, next) ==
    [cs EXCEPT ![w].pc = IF r.ok THEN next ELSE "done",
               ![w].result = IF r.ok THEN @ ELSE r,
               ![w].met = @ \/ OthersRunning(w)]

Others == <<config, now, app_globals, request, pc, boost_factors, outcome, db, sent, logged,
            stores, run>>

\* the result of a call for the same record that has already ended, NoResult
\* where there is none
EarlierResult(w, record) ==
    LET ended == {o \in Workers \ {w} : calls[o].pc = "done" /\ calls[o].given = record}
    IN  IF ended = {} THEN NoResult ELSE calls[CHOOSE o \in ended : TRUE].result

\* compute_boost_factors(record) is called on worker w
Begin(w, record) ==
    /\ calls[w].pc = "idle"
    /\ calls' = [calls EXCEPT ![w] = [IdleCall EXCEPT !.pc = "ids", !.given = record,
                                                      !.record = record, !.seen = config,
                                                      !.clock = now,
                                                      !.prior = EarlierResult(w, record)]]
    /\ UNCHANGED Others

\* lines 328-336
ReadIdsStep(w) ==
    /\ calls[w].pc = "ids"
    /\ calls' = step(calls, w, ReadIds(calls[w].record), "refereed")
    /\ UNCHANGED Others

\* line 340
RefereedStep(w) ==
    /\ calls[w].pc = "refereed"
    /\ LET r == compute_refereed_boost(calls[w].record)
       IN  calls' = step(IF r.ok THEN put(calls, w, [refereed_boost |-> r.v]) ELSE calls,
                         w, r, "doctype")
    /\ UNCHANGED Others

\* line 341
DoctypeStep(w) ==
    /\ calls[w].pc = "doctype"
    /\ LET r == compute_doctype_boost(config, calls[w].record)
       IN  calls' = step(IF r.ok THEN put(calls, w, [doctype_boost |-> r.v]) ELSE calls,
                         w, r, "recency")
    /\ UNCHANGED Others

\* line 342, which reads datetime.now()
RecencyStep(w) ==
    /\ calls[w].pc = "recency"
    /\ LET r == compute_recency_boost(config, calls[w].record, now)
       IN  calls' = [step(IF r.ok THEN put(calls, w, [recency_boost |-> r.v]) ELSE calls,
                          w, r, "combine") EXCEPT ![w].clock = now]
    /\ UNCHANGED Others

\* lines 346-358
CombineStep(w) ==
    /\ calls[w].pc = "combine"
    /\ LET weights == ConfigGet(config, "BOOST_FACTOR_WEIGHTS", EmptyTable)
           total_weight == SumValues(weights)
           r == IF DOMAIN weights # {} /\ total_weight[1] = 0 THEN Raise("ZeroDivisionError")
                ELSE IF ~(BoostKeys \subseteq DOMAIN weights) THEN Raise("KeyError")
                ELSE Ok(weighted_sum(calls[w].boost_factors, weights, total_weight))
       IN  calls' = step(IF r.ok THEN put(calls, w, [boost_factor |-> r.v]) ELSE calls,
                         w, r, "collect")
    /\ UNCHANGED Others

\* lines 361-362
CollectStep(w) ==
    /\ calls[w].pc = "collect"
    /\ LET r == compute_collection_weights(config, calls[w].record)
       IN  calls' = step(IF r.ok THEN put(calls, w, r.v) ELSE calls, w, r, "final")
    /\ UNCHANGED Others

\* lines 365-369: the final boosts, and the return of boost_factors
FinalStep(w) ==
    /\ calls[w].pc = "final"
    /\ LET r == compute_final_boost(config, calls[w].boost_factors, calls[w].record)
           Returned(cs) == [cs EXCEPT ![w].result = IF r.ok THEN Ok(cs[w].boost_factors) ELSE r]
       IN  calls' = Returned(step(IF r.ok THEN put(calls, w, r.v) ELSE calls, w, r, "done"))
    /\ UNCHANGED Others

\* the caller of worker w takes the result
Return(w) ==
    /\ calls[w].pc = "done"
    /\ calls' = [calls EXCEPT ![w] = IdleCall]
    /\ UNCHANGED Others

NextCalls ==
    \/ \E w \in Workers, record \in CallRecords : Begin(w, record)
    \/ \E w \in Workers : ReadIdsStep(w)
    \/ \E w \in Workers : RefereedStep(w)
    \/ \E w \in Workers : DoctypeStep(w)
    \/ \E w \in Workers : RecencyStep(w)
    \/ \E w \in Workers : CombineStep(w)
    \/ \E w \in Workers : CollectStep(w)
    \/ \E w \in Workers : FinalStep(w)
    \/ \E w \in Workers : Return(w)
    \/ Tick

SpecCalls == InitCalls /\ [][NextCalls]_vars

-----------------------------------------------------------------------------
(* Stores in parallel: store_boost_factors one statement at a time *)

StoreBibcodes == {Str("b1"), Str("b2")}
\* the scix_id process_boost_request resolves: a value, '' or None
StoreScixIds == {None, Str(""), Str("s1")}
StoreFactors ==
    {compute_boost_factors(BaseConfig, record, Start).v :
        record \in {BaseRecord, With(BaseRecord, "metrics", Absent)}}

InitStores ==
    /\ config = BaseConfig
    /\ now = Start
    /\ app_globals = AppImports
    /\ request = EmptyDict
    /\ pc = "idle"
    /\ boost_factors = NoResult
    /\ outcome = "none"
    /\ db = {}
    /\ sent = <<>>
    /\ logged = <<>>
    /\ calls = NoCalls
    /\ stores = NoStores
    /\ run = IdleRun

\* some other worker is inside store_boost_factors
OthersStoring(w) == \E o \in Workers \ {w} : stores[o].pc \notin {"idle", "done"}

\* lines 382-387: .first() of the rows the filter matches, 0 where there is none
first(rows, bibcode, scix_id) ==
    LET found == {row \in rows : Matches(row, bibcode, scix_id)}
    IN  IF found = {} THEN 0
        ELSE (CHOOSE row \in found : \A o \in found : row.id <= o.id).id

\* lines 391-409 and 440: the columns of the row read are assigned and committed
update(rows, id, values) ==
    {IF row.id = id
     THEN [row EXCEPT !.cols = [k \in DOMAIN @ |->
                                  IF k \in StoredColumns THEN values[k] ELSE @[k]]]
     ELSE row : row \in rows}

\* lines 414-437 and 440: a new row is added and committed
add(rows, bibcode, scix_id, values) ==
    rows \cup {[id |-> NextId(rows), bibcode |-> bibcode, scix_id |-> scix_id, cols |-> values]}

StoreOthers ==
    <<config, now, app_globals, request, pc, boost_factors, outcome, sent, logged, calls, run>>

\* worker w enters store_boost_factors(bibcode, scix_id, boost_factors)
StoreCall(w, bibcode, scix_id, factors) ==
    /\ stores[w].pc = "idle"
    /\ stores' = [o \in Workers |->
                    IF o = w
                    THEN [IdleStore EXCEPT !.pc = "query", !.bibcode = bibcode,
                                           !.scix_id = scix_id, !.boost_factors = factors,
                                           !.before = db, !.met = OthersStoring(w)]
                    ELSE [stores[o] EXCEPT !.met = @ \/ stores[o].pc \notin {"idle", "done"}]]
    /\ UNCHANGED db
    /\ UNCHANGED StoreOthers

\* worker w runs its next statement: the query of lines 382-387, whose filter
\* names and_, then the update or the insert with its commit
StoreStep(w) ==
    /\ stores[w].pc \in {"query", "save"}
    /\ IF stores[w].pc = "query"
       THEN /\ stores' = [stores EXCEPT
                 ![w].pc = IF "and_" \in app_globals THEN "save" ELSE "done",
                 ![w].outcome = IF "and_" \in app_globals THEN @ ELSE "raised",
                 ![w].existing_record =
                     IF "and_" \in app_globals
                     THEN first(db, stores[w].bibcode, stores[w].scix_id) ELSE @,
                 ![w].met = @ \/ OthersStoring(w)]
            /\ UNCHANGED db
       ELSE /\ db' = IF stores[w].existing_record # 0
                     THEN update(db, stores[w].existing_record,
                                 ColumnValues(stores[w].boost_factors))
                     ELSE add(db, stores[w].bibcode, stores[w].scix_id,
                              ColumnValues(stores[w].boost_factors))
            /\ stores' = [stores EXCEPT ![w].pc = "done", ![w].outcome = "returned",
                                        ![w].met = @ \/ OthersStoring(w)]
    /\ UNCHANGED StoreOthers

\* the caller of worker w has the outcome; the worker is free again
StoreReturn(w) ==
    /\ stores[w].pc = "done"
    /\ stores' = [stores EXCEPT ![w] = IdleStore]
    /\ UNCHANGED db
    /\ UNCHANGED StoreOthers

NextStores ==
    \/ \E w \in Workers, bibcode \in StoreBibcodes, scix_id \in StoreScixIds,
          factors \in StoreFactors : StoreCall(w, bibcode, scix_id, factors)
    \/ \E w \in Workers : StoreStep(w)
    \/ \E w \in Workers : StoreReturn(w)

SpecStores == InitStores /\ [][NextStores]_vars

-----------------------------------------------------------------------------
(* The batch run of run.py: process_bibcodes_in_batches and process_batch *)

MaxBibcodes == 4    \* the bibcode lists have up to MaxBibcodes entries
MaxBatchSize == 3   \* batch_size is drawn from 1..MaxBatchSize

BibcodeLists ==
    UNION {[1..n -> {"b1", "b2"}] : n \in 0..MaxBibcodes}

\* lines 289-295: the minimal record made for a bibcode
record_data(bibcode) ==
    Dict([k \in {"bibcode", "scix_id", "bib_data", "metrics", "classifications"} |->
            CASE k = "bibcode" -> Str(bibcode)
              [] k = "scix_id" -> None
              [] k = "classifications" -> List(<<>>)
              [] OTHER -> EmptyDict])

\* the batch is handed on only once it holds more than batch_size records
over_batch_size(batch, batch_size) == Len(batch) > batch_size

\* line 301: if len(batch) >= batch_size
reached_batch_size(batch, batch_size) == Len(batch) >= batch_size

\* process_batch(app, records_batch, logger) is entered: lines 203-207
EnterBatch(r, records_batch, resume) ==
    [r EXCEPT !.pc = IF records_batch = <<>> THEN resume ELSE "submit",
              !.handed = Append(@, records_batch), !.resume = resume,
              !.records_batch = records_batch, !.i = 0, !.tasks = <<>>, !.t = 1,
              !.computing = <<>>, !.collected = <<>>, !.storing = <<>>, !.sending = <<>>]

\* process_batch returns to line 304 or to line 311
LeaveBatch(r) ==
    [r EXCEPT !.pc = r.resume, !.batch = IF r.resume = "loop" THEN <<>> ELSE @]

InitBatches ==
    /\ config = BaseConfig
    /\ now = Start
    /\ app_globals = AppImports
    /\ request = EmptyDict
    /\ pc = "idle"
    /\ boost_factors = NoResult
    /\ outcome = "none"
    /\ db = {}
    /\ sent = <<>>
    /\ logged = <<>>
    /\ calls = NoCalls
    /\ stores = NoStores
    /\ run = IdleRun

BatchOthers ==
    <<config, now, app_globals, request, pc, boost_factors, outcome, db, sent, logged, calls,
      stores>>

\* process_bibcodes_in_batches(app, bibcodes, logger, batch_size) is called,
\* app.config holding DELAY_MESSAGE or not: lines 274-283
ProcessBibcodesInBatches(bibcodes, batch_size, delay_message) ==
    /\ run.pc = "idle"
    /\ run' = [IdleRun EXCEPT !.pc = IF bibcodes = <<>> THEN "done" ELSE "loop",
                              !.bibcodes = bibcodes, !.batch_size = batch_size,
                              !.delay_message = delay_message]
    /\ UNCHANGED BatchOthers

\* one turn of the loop of lines 284-304
TakeBibcode ==
    /\ run.pc = "loop"
    /\ run.sent < Len(run.bibcodes)
    /\ LET batch == Append(run.batch, record_data(run.bibcodes[run.sent + 1]))
           taken == [run EXCEPT !.sent = @ + 1, !.batch = batch]
       IN  run' = IF reached_batch_size(batch, run.batch_size)
                  THEN EnterBatch(taken, batch, "loop")
                  ELSE taken
    /\ UNCHANGED BatchOthers

\* the loop is over: lines 307-311
FinalBatch ==
    /\ run.pc = "loop"
    /\ run.sent = Len(run.bibcodes)
    /\ run' = IF run.batch # <<>> THEN EnterBatch(run, run.batch, "done")
              ELSE [run EXCEPT !.pc = "done"]
    /\ UNCHANGED BatchOthers

\* one turn of the loop of lines 209-226: task_compute_boost_factors.delay
\* returns a task, or raises and the record is skipped
Submit(delayed) ==
    /\ run.pc = "submit"
    /\ LET tasks == IF delayed
                    THEN Append(run.tasks, [record |-> run.records_batch[run.i + 1],
                                            index |-> run.i])
                    ELSE run.tasks
           r == [run EXCEPT !.computing = Append(@, run.i), !.tasks = tasks, !.i = @ + 1]
       IN  run' = IF r.i < Len(run.records_batch) THEN r
                  ELSE IF tasks = <<>> THEN LeaveBatch(r)
                  ELSE [r EXCEPT !.pc = "collect"]
    /\ UNCHANGED BatchOthers

\* one turn of the loop of lines 231-257: compute_task.get, then
\* task_store_boost_factors.delay, then task_send_to_master_pipeline.delay
\* where DELAY_MESSAGE is set; the first that raises ends the turn
Collect(raises) ==
    /\ run.pc = "collect"
    /\ raises = "send" => run.delay_message
    /\ LET index == run.tasks[run.t].index
           r == [run EXCEPT
                   !.collected = Append(@, index),
                   !.storing = IF raises # "get" THEN Append(@, index) ELSE @,
                   !.sending = IF raises \notin {"get", "store"} /\ run.delay_message
                               THEN Append(@, index) ELSE @,
                   !.t = @ + 1]
       IN  run' = IF r.t <= Len(run.tasks) THEN r ELSE LeaveBatch(r)
    /\ UNCHANGED BatchOthers

\* process_bibcodes_in_batches has returned
RunReturn ==
    /\ run.pc = "done"
    /\ run' = IdleRun
    /\ UNCHANGED BatchOthers

NextBatches ==
    \/ \E bibcodes \in BibcodeLists, batch_size \in 1..MaxBatchSize, delay_message \in BOOLEAN :
          ProcessBibcodesInBatches(bibcodes, batch_size, delay_message)
    \/ TakeBibcode
    \/ FinalBatch
    \/ \E delayed \in BOOLEAN : Submit(delayed)
    \/ \E raises \in {"get", "store", "send", "none"} : Collect(raises)
    \/ RunReturn

SpecBatches == InitBatches /\ [][NextBatches]_vars

-----------------------------------------------------------------------------
(* What the claims speak of *)

\* a scoring call has returned or raised and its result is in boost_factors
Scored == pc = "scored"
\* handle_message_payload has ended
Finished == pc = "finished"

\* a field of bib_data, Absent where bib_data or the field is not there
BibField(record, key) ==
    IF Has(record, "bib_data") /\ record.d["bib_data"].t = "dict"
    THEN Get(record.d["bib_data"], key, Absent)
    ELSE Absent

\* the refereed flag of the metrics section, Absent where it is not there
MetricsFlag(record) ==
    IF Has(record, "metrics") /\ record.d["metrics"].t = "dict"
    THEN Get(record.d["metrics"], "refereed", Absent)
    ELSE Absent

SectionsAreMappings(record) ==
    /\ Has(record, "bib_data") => record.d["bib_data"].t = "dict"
    /\ Has(record, "metrics") => record.d["metrics"].t = "dict"

IsTagList(v) == v.t = "list" /\ \A i \in DOMAIN v.l : v.l[i].t = "str"

\* a Record as the data model has it: the sections are mappings, and every
\* field that is there has the type the data model gives it
WellFormed(record) ==
    /\ SectionsAreMappings(record)
    /\ BibField(record, "doctype").t \in {"absent", "str"}
    /\ BibField(record, "pubdate").t \in {"absent", "str", "datestr"}
    /\ BibField(record, "entry_date").t \in {"absent", "str", "datestr"}
    /\ BibField(record, "refereed").t \in {"absent", "bool"}
    /\ MetricsFlag(record).t \in {"absent", "bool"}
    /\ BibField(record, "database").t \in {"absent", "str"} \/ IsTagList(BibField(record, "database"))
    /\ Get(record, "classifications", Absent).t \in {"absent", "str"}
       \/ IsTagList(Get(record, "classifications", Absent))

\* bib_data, or an empty mapping where the record has none
BibDataOf(record) == IF Has(record, "bib_data") THEN record.d["bib_data"] ELSE EmptyDict

\* the three boosts the stages give the record of the call
StageBoosts ==
    [refereed_boost |-> compute_refereed_boost(request).v,
     doctype_boost |-> compute_doctype_boost(config, request).v,
     recency_boost |-> compute_recency_boost(config, request, now).v]

StagesReturn ==
    /\ compute_refereed_boost(request).ok
    /\ compute_doctype_boost(config, request).ok
    /\ compute_recency_boost(config, request, now).ok

ConfiguredWeights == ConfigGet(config, "BOOST_FACTOR_WEIGHTS", EmptyTable)

\* BOOST_FACTOR_WEIGHTS is configured with the three weights and they sum to 0
ZeroSumWeights ==
    /\ DOMAIN ConfiguredWeights = BoostKeys
    /\ \A k \in BoostKeys : ConfiguredWeights[k] = Zero

Third == <<1, 3>>

\* C1 (as claimed): with configured weights that sum to 0, compute_boost_factors
\* returns, and boost_factor is the mean (refereed + doctype + recency) / 3
C1_ZeroSumGivesMean ==
    (Scored /\ ZeroSumWeights /\ WellFormed(request) /\ StagesReturn)
    => /\ boost_factors.ok
       /\ boost_factors.v["boost_factor"] =
            RMul(Third, RAdd(RAdd(StageBoosts["refereed_boost"], StageBoosts["doctype_boost"]),
                             StageBoosts["recency_boost"]))

\* C2 (as claimed): without BOOST_FACTOR_WEIGHTS in the configuration,
\* compute_boost_factors returns and boost_factor = 0.6 * refereed + 0.4 * doctype
C2_DefaultWeights ==
    (Scored /\ "BOOST_FACTOR_WEIGHTS" \notin DOMAIN config /\ WellFormed(request) /\ StagesReturn)
    => /\ boost_factors.ok
       /\ boost_factors.v["boost_factor"] =
            RAdd(RMul(<<3, 5>>, StageBoosts["refereed_boost"]),
                 RMul(<<2, 5>>, StageBoosts["doctype_boost"]))

DoctypeTable == ConfigGet(config, "DOCTYPE_RANKING", EmptyTable)
DistinctRanks == {DoctypeTable[d] : d \in DOMAIN DoctypeTable}

\* the doctype of the call's record is a string whose lowercase is in the table
DoctypeInTable ==
    /\ BibField(request, "doctype").t = "str"
    /\ Lower(BibField(request, "doctype").s) \in DOMAIN DoctypeTable

\* C3 (as claimed): when every entry of DOCTYPE_RANKING has the same rank,
\* compute_doctype_boost returns 1.0 for every doctype in the table
C3_SingleRankScoresOne ==
    (Scored /\ Cardinality(DistinctRanks) = 1 /\ WellFormed(request) /\ DoctypeInTable)
    => compute_doctype_boost(config, request) = Ok(One)

BibIsMapping(record) == Has(record, "bib_data") => record.d["bib_data"].t = "dict"

\* the identifier the claim resolves: the top-level value, else the one inside
\* bib_data; Absent where neither is there
IdOf(record, key) ==
    IF Truthy(Get(record, key, None)) THEN Get(record, key, None) ELSE BibField(record, key)

HasId(record, key) == IdOf(record, key).t = "str" /\ IdOf(record, key).s # ""

\* C4 (as claimed): a request with a scix_id and no bibcode is not rejected: it
\* is scored, stored under its scix_id and sent under its scix_id
C4_ScixIdOnlyIsProcessed ==
    (/\ Finished
     /\ BibIsMapping(request)
     /\ ~HasId(request, "bibcode")
     /\ HasId(request, "scix_id")
     /\ compute_boost_factors(config, request, now).ok)
    => /\ boost_factors.ok
       /\ \E row \in db : row.scix_id = IdOf(request, "scix_id")
       /\ \E i \in DOMAIN sent : sent[i].scix_id = IdOf(request, "scix_id")

NoIdentity(record) == ~HasId(record, "bibcode") /\ ~HasId(record, "scix_id")

\* C5 (as claimed): a request in which neither bibcode nor scix_id resolves is
\* not scored, stores nothing, sends nothing, and ends as an error for the caller
C5_MissingIdentityIsAnError ==
    (Finished /\ NoIdentity(request))
    => /\ boost_factors = NoResult
       /\ db = {}
       /\ sent = <<>>
       /\ outcome = "raised"

\* C5 (amended): a call for a request in which neither identifier resolves scores
\* nothing and leaves the rows and the messages as they were; it logs "No bibcode
\* provided in request" and returns normally, and raises only where bib_data is
\* there but is not a mapping
C5_MissingIdentityIsLoggedAndSkipped ==
    [][(pc = "idle" /\ pc' = "finished" /\ NoIdentity(request'))
       => /\ boost_factors' = NoResult
          /\ db' = db
          /\ sent' = sent
          /\ IF BibIsMapping(request')
             THEN outcome' = "returned" /\ logged' = <<"No bibcode provided in request">>
             ELSE outcome' = "raised"]_vars

C5_Witness ==
    /\ Finished
    /\ NoIdentity(request)
    /\ Has(request, "bib_data")
    /\ outcome = "returned"
    /\ logged = <<"No bibcode provided in request">>

\* every section of the configuration is there and none is degenerate
FullyConfigured ==
    /\ DOMAIN config = {"DOCTYPE_RANKING", "COLLECTION_RANKINGS", "COLLECTIONS",
                        "BOOST_FACTOR_WEIGHTS", "RECENCY_BOOST_MULTIPLIER"}
    /\ Cardinality(DistinctRanks) >= 2
    /\ DOMAIN ConfiguredWeights = BoostKeys
    /\ \E k \in BoostKeys : ConfiguredWeights[k] # Zero
    /\ all_ranks(config["COLLECTION_RANKINGS"]) # {}

IsTrue(v) == v.t = "bool" /\ v.b

\* neither date of the record is a text that names a calendar day
NoParseableDate(record) ==
    /\ ~Strptime(BibField(record, "pubdate")).ok
    /\ ~Strptime(BibField(record, "entry_date")).ok
    /\ ~(BibField(record, "pubdate").t = "datestr" /\ BibField(record, "pubdate").d = 0)

\* C6 (as claimed): with a fully configured RankingConfig compute_boost_factors
\* returns for every record, and a field that is absent, null or malformed gets
\* its neutral default: doctype 0.0, refereed 0.0, recency 1.0
C6_BadFieldsAreNeverFatal ==
    (Scored /\ FullyConfigured)
    => /\ boost_factors.ok
       /\ BibField(request, "doctype").t # "str" => boost_factors.v["doctype_boost"] = Zero
       /\ (~IsTrue(MetricsFlag(request)) /\ ~IsTrue(BibField(request, "refereed")))
          => boost_factors.v["refereed_boost"] = Zero
       /\ NoParseableDate(request) => boost_factors.v["recency_boost"] = One

\* a refereed flag that is absent, null or a boolean
FlagTyped(v) == v.t \in {"absent", "none", "bool"}

RefereedExpected ==
    IF IsTrue(MetricsFlag(request)) \/ IsTrue(BibField(request, "refereed")) THEN One ELSE Zero

\* C7: for a record whose metrics and bib_data sections are absent or mappings
\* and whose refereed flags are absent, null or booleans, compute_refereed_boost
\* returns 1.0 if metrics.refereed or bib_data.refereed is true and 0.0 otherwise,
\* and that is the refereed_boost compute_boost_factors returns
C7_RefereedIsOneOrZero ==
    (/\ Scored
     /\ SectionsAreMappings(request)
     /\ FlagTyped(MetricsFlag(request))
     /\ FlagTyped(BibField(request, "refereed")))
    => /\ compute_refereed_boost(request) = Ok(RefereedExpected)
       /\ boost_factors.ok => boost_factors.v["refereed_boost"] = RefereedExpected

\* the fallback to bib_data.refereed has decided a call
C7_Witness ==
    /\ Scored
    /\ boost_factors.ok
    /\ MetricsFlag(request) = Bool(FALSE)
    /\ BibField(request, "refereed") = Bool(TRUE)
    /\ boost_factors.v["refereed_boost"] = One

\* the lowercased doctype of the call's record, "" where there is none
RequestDoctype ==
    IF BibField(request, "doctype").t = "str" THEN Lower(BibField(request, "doctype").s) ELSE ""

\* 1 - i/(k-1) for the label's rank, the i-th smallest of the k distinct ranks
DoctypeExpected(label) ==
    IF label \in DOMAIN DoctypeTable
    THEN LET i == Cardinality({r \in DistinctRanks : r < DoctypeTable[label]})
             k == Cardinality(DistinctRanks)
         IN  Frac(k - 1 - i, k - 1)
    ELSE Zero

\* what compute_doctype_boost gives a record with this doctype
DoctypeScore(label) ==
    compute_doctype_boost(config, WithBib(BaseRecord, "doctype", Str(label))).v

\* C8: with at least two distinct ranks in DOCTYPE_RANKING, compute_doctype_boost
\* gives a record whose lowercased doctype holds the i-th smallest of the k
\* distinct ranks the score 1 - i/(k-1): 1.0 for the lowest rank, 0.0 for the
\* highest, equal scores for equal ranks, and a strictly smaller score for a
\* larger rank; a doctype that is not in the table, is empty or is missing
\* scores 0.0, and so does every record when no table is configured
C8_DoctypeScoreByRank ==
    (Scored /\ BibIsMapping(request) /\ BibField(request, "doctype").t \in {"absent", "str"})
    => /\ Cardinality(DistinctRanks) >= 2
          => /\ compute_doctype_boost(config, request) = Ok(DoctypeExpected(RequestDoctype))
             /\ \A a, b \in DOMAIN DoctypeTable :
                  /\ DoctypeTable[a] < DoctypeTable[b] => RLt(DoctypeScore(b), DoctypeScore(a))
                  /\ DoctypeTable[a] = DoctypeTable[b] => DoctypeScore(a) = DoctypeScore(b)
                  /\ (\A c \in DOMAIN DoctypeTable : DoctypeTable[a] <= DoctypeTable[c])
                     => DoctypeScore(a) = One
                  /\ (\A c \in DOMAIN DoctypeTable : DoctypeTable[c] <= DoctypeTable[a])
                     => DoctypeScore(a) = Zero
             /\ RequestDoctype \notin DOMAIN DoctypeTable
                => compute_doctype_boost(config, request) = Ok(Zero)
       /\ DOMAIN DoctypeTable = {} => compute_doctype_boost(config, request) = Ok(Zero)
       /\ (boost_factors.ok /\ Cardinality(DistinctRanks) # 1)
          => boost_factors.v["doctype_boost"] = DoctypeExpected(RequestDoctype)

\* a record with a capitalised doctype got the middle score of three ranks
C8_Witness ==
    /\ Scored
    /\ boost_factors.ok
    /\ Cardinality(DistinctRanks) = 3
    /\ BibField(request, "doctype") = Str("Article")
    /\ boost_factors.v["doctype_boost"] = <<1, 2>>

\* C9 (as claimed): compute_recency_boost returns a score r with 0 < r <= 1 for
\* every record and every value of the clock
C9_RecencyInUnitInterval ==
    (Scored /\ WellFormed(request))
    => /\ compute_recency_boost(config, request, now).ok
       /\ RLt(Zero, compute_recency_boost(config, request, now).v)
       /\ RLe(compute_recency_boost(config, request, now).v, One)

\* the reference date of the call's record
RequestReference ==
    reference_date(Get(BibDataOf(request), "pubdate", None),
                   Get(BibDataOf(request), "entry_date", None))

UsableDate == WellFormed(request) /\ "nodate" \notin DOMAIN RequestReference

RequestAgeDays == AgeDays(now, RequestReference.v)

Multiplier == ConfigGet(config, "RECENCY_BOOST_MULTIPLIER", <<1, 10>>)

\* 1.0 beyond 24 months of 30.44 days, else 1 / (1 + multiplier * days / 30.44)
RecencyExpected(days) ==
    IF 25 * days > 24 * 761 THEN One
    ELSE Frac(761 * Multiplier[2], 761 * Multiplier[2] + 25 * Multiplier[1] * days)

\* C10: for a record with a usable reference date, with age_months the whole days
\* from the reference date to now divided by 30.44, compute_recency_boost returns
\* 1.0 if age_months > 24 and 1 / (1 + multiplier * age_months) otherwise, the
\* multiplier being RECENCY_BOOST_MULTIPLIER or 0.1; a reference date of today
\* gives 1.0
C10_RecencyDecay ==
    (Scored /\ UsableDate)
    => /\ compute_recency_boost(config, request, now) = Ok(RecencyExpected(RequestAgeDays))
       /\ RequestAgeDays = 0 => compute_recency_boost(config, request, now) = Ok(One)
       /\ boost_factors.ok => boost_factors.v["recency_boost"] = RecencyExpected(RequestAgeDays)

\* a record less than 24 months old got a decayed score under the default multiplier
C10_Witness ==
    /\ Scored
    /\ UsableDate
    /\ RequestAgeDays \in 1..730
    /\ "RECENCY_BOOST_MULTIPLIER" \notin DOMAIN config
    /\ boost_factors.ok
    /\ boost_factors.v["recency_boost"] = RecencyExpected(RequestAgeDays)
    /\ boost_factors.v["recency_boost"] # One

\* the day number of the clock
Today == ToOrdinal(now[1], now[2], now[3])

\* the publication dates that name a calendar day not after the clock
PastPubDates == {p \in PubDates : Strptime(p).ok /\ Strptime(p).v <= Today}

\* the recency score of the call's record with its pubdate replaced
RecencyWithPubdate(p) == compute_recency_boost(config, WithBib(request, "pubdate", p), now).v

\* C11 (as claimed): of two records that differ only in their reference date,
\* neither date in the future, the one with the more recent date gets a
\* recency_boost at least that of the older one
C11_NewerNeverScoresLower ==
    (/\ Scored
     /\ WellFormed(request)
     /\ BibField(request, "entry_date").t = "absent"
     /\ BibField(request, "pubdate") \in PastPubDates)
    => \A older \in PastPubDates :
         Strptime(older).v < Strptime(BibField(request, "pubdate")).v
         => RLe(RecencyWithPubdate(older), RecencyWithPubdate(BibField(request, "pubdate")))

\* a date with day 00 rewritten to day 01, any other value as it is
DayOne(v) == IF v.t = "datestr" /\ v.d = 0 THEN DateStr(v.y, v.m, 1) ELSE v

\* C12 (as claimed): replacing a pubdate or an entry_date of day 00 by the same
\* date with day 01 leaves recency_boost as it was
C12_DayZeroReadAsDayOne ==
    (Scored /\ WellFormed(request) /\ Has(request, "bib_data"))
    => /\ compute_recency_boost(config,
              WithBib(request, "pubdate", DayOne(BibField(request, "pubdate"))), now)
          = compute_recency_boost(config, request, now)
       /\ compute_recency_boost(config,
              WithBib(request, "entry_date", DayOne(BibField(request, "entry_date"))), now)
          = compute_recency_boost(config, request, now)

\* neither date of the call's record has day 00
NoDayZero ==
    /\ DayOne(BibField(request, "pubdate")) = BibField(request, "pubdate")
    /\ DayOne(BibField(request, "entry_date")) = BibField(request, "entry_date")

PubParse == Strptime(BibField(request, "pubdate"))
EntryParse == Strptime(BibField(request, "entry_date"))

\* the reference date as claimed: the earlier of two dates that parse, the one
\* date that parses
ClaimedReference ==
    IF PubParse.ok /\ EntryParse.ok
    THEN (IF PubParse.v <= EntryParse.v THEN PubParse.v ELSE EntryParse.v)
    ELSE IF PubParse.ok THEN PubParse.v
    ELSE EntryParse.v

\* C13 (as claimed): compute_recency_boost decays from the earlier of pubdate
\* and entry_date if both parse, from the one that parses if exactly one does,
\* and returns the neutral 1.0 only when neither is present or neither parses
C13_ReferenceDateChoice ==
    (Scored /\ WellFormed(request) /\ NoDayZero)
    => compute_recency_boost(config, request, now)
       = IF ~PubParse.ok /\ ~EntryParse.ok THEN Ok(One)
         ELSE decay(config, Today - ClaimedReference)

\* a string as a one-element list, a list as it is
AsTags(v) == IF v.t = "str" THEN <<v>> ELSE v.l

\* the tags of a well-formed record before normalisation: classifications
\* where it is there and not empty, else bib_data.database
RawTags(record) ==
    IF Truthy(Get(record, "classifications", None))
    THEN AsTags(Get(record, "classifications", None))
    ELSE IF Truthy(BibField(record, "database")) THEN AsTags(BibField(record, "database"))
    ELSE <<>>

\* the record's collection tags: lowercase, spaces as underscores, general
\* where nothing resolves
ResolvedTags(record) ==
    LET tags == {SpaceToUnderscore(Lower(RawTags(record)[i].s)) :
                    i \in {j \in DOMAIN RawTags(record) : RawTags(record)[j].s # ""}}
    IN  IF tags = {} THEN {"general"} ELSE tags

Rankings == ConfigGet(config, "COLLECTION_RANKINGS", EmptyTable)
TrackedDisciplines == Range(ConfigGet(config, "COLLECTIONS", DefaultCollections))

\* C14: for a record whose collection tags include general, in any
\* capitalisation, or whose tags resolve to nothing, compute_collection_weights
\* returns the weight 1.0 for every discipline in COLLECTIONS, whatever
\* COLLECTION_RANKINGS holds, and those are the weights compute_boost_factors returns
C14_GeneralWeighsOneEverywhere ==
    (Scored /\ WellFormed(request) /\ "general" \in ResolvedTags(request))
    => /\ compute_collection_weights(config, request)
          = Ok([k \in {d \o "_weight" : d \in TrackedDisciplines} |-> One])
       /\ boost_factors.ok
          => \A d \in TrackedDisciplines : boost_factors.v[d \o "_weight"] = One

\* a record tagged astronomy and General scored 1.0 for astronomy under a table
\* that ranks general lowest for astronomy
C14_Witness ==
    /\ Scored
    /\ boost_factors.ok
    /\ Get(request, "classifications", None) = List(<<Str("astronomy"), Str("General")>>)
    /\ "general" \in DOMAIN Rankings
    /\ Rankings["general"]["astronomy"] = 1
    /\ boost_factors.v["astronomy_weight"] = One

\* the distinct ranks anywhere in COLLECTION_RANKINGS
RankValues == UNION {{Rankings[t][d] : d \in DOMAIN Rankings[t]} : t \in DOMAIN Rankings}

\* 1.0 - 0.9 * i / (n - 1) for the i-th highest of the n distinct ranks
WeightOfRank(rank) ==
    LET i == Cardinality({r \in RankValues : r > rank})
        n == Cardinality(RankValues)
    IN  IF n = 1 THEN One ELSE Frac(10 * (n - 1) - 9 * i, 10 * (n - 1))

\* the weights of the record's tags that have a rank for the discipline
TagWeights(record, d) ==
    {WeightOfRank(Rankings[t][d]) :
        t \in {x \in ResolvedTags(record) \cap DOMAIN Rankings : d \in DOMAIN Rankings[x]}}

\* the largest of them, 0.0 where there is none
MaxTagWeight(record, d) ==
    IF TagWeights(record, d) = {} THEN Zero
    ELSE CHOOSE w \in TagWeights(record, d) : \A x \in TagWeights(record, d) : RLe(x, w)

\* the call's record is well formed and general is not among its tags
RankedRecord == Scored /\ WellFormed(request) /\ "general" \notin ResolvedTags(request)

\* C15 (as claimed): with general not among the tags and COLLECTION_RANKINGS not
\* empty, each discipline's weight is the largest rank weight of the record's
\* tags that have a rank for it, and 0.0 where no tag has one
C15_WeightIsMaxOverTags ==
    (RankedRecord /\ DOMAIN Rankings # {})
    => compute_collection_weights(config, request)
       = Ok([k \in {d \o "_weight" : d \in TrackedDisciplines} |->
               MaxTagWeight(request, CHOOSE d \in TrackedDisciplines : k = d \o "_weight")])

\* C15 (amended): the same where COLLECTION_RANKINGS holds at least one rank;
\* every such weight is 0.0 or lies in [0.1, 1.0]; where COLLECTION_RANKINGS is
\* empty or holds tables without any rank, every discipline's weight is 1.0
C15_WeightIsMaxOverTagsOfRankedTables ==
    RankedRecord
    => /\ compute_collection_weights(config, request)
          = Ok([k \in {d \o "_weight" : d \in TrackedDisciplines} |->
                  IF RankValues = {} THEN One
                  ELSE MaxTagWeight(request, CHOOSE d \in TrackedDisciplines : k = d \o "_weight")])
       /\ \A d \in TrackedDisciplines :
            LET w == compute_collection_weights(config, request).v[d \o "_weight"]
            IN  w = Zero \/ (RLe(<<1, 10>>, w) /\ RLe(w, One))
       /\ boost_factors.ok
          => \A d \in TrackedDisciplines :
               boost_factors.v[d \o "_weight"]
               = IF RankValues = {} THEN One ELSE MaxTagWeight(request, d)

\* a record with two tags got for physics the larger of a middle and a bottom weight
C15_Witness ==
    /\ Scored
    /\ boost_factors.ok
    /\ Get(request, "classifications", None) = List(<<Str("astronomy"), Str("Earth Science")>>)
    /\ Cardinality(RankValues) = 3
    /\ TagWeights(request, "physics") = {<<11, 20>>, <<1, 10>>}
    /\ boost_factors.v["physics_weight"] = <<11, 20>>

InUnit(x) == RLe(Zero, x) /\ RLe(x, One)

\* C16 (as claimed): with three non-negative configured weights, some or all of
\* them 0, and the three stage boosts in [0,1], compute_boost_factors returns a
\* boost_factor in [0,1] and every final boost is in [0,1]
C16_BoostFactorInUnitInterval ==
    (/\ Scored
     /\ WellFormed(request)
     /\ DOMAIN ConfiguredWeights = BoostKeys
     /\ \A k \in BoostKeys : RLe(Zero, ConfiguredWeights[k])
     /\ StagesReturn
     /\ \A k \in BoostKeys : InUnit(StageBoosts[k]))
    => /\ boost_factors.ok
       /\ InUnit(boost_factors.v["boost_factor"])
       /\ \A d \in TrackedDisciplines : InUnit(boost_factors.v[d \o "_final_boost"])

\* the keys of a complete BoostFactors value
CompleteKeys ==
    {"refereed_boost", "doctype_boost", "recency_boost", "boost_factor"}
    \cup {d \o "_weight" : d \in TrackedDisciplines}
    \cup {d \o "_final_boost" : d \in TrackedDisciplines}

\* C17: a value compute_boost_factors returns holds the three stage boosts,
\* boost_factor and, for every discipline d of COLLECTIONS, d_weight and
\* d_final_boost, and d_final_boost = d_weight * boost_factor
C17_CompleteAndConsistent ==
    (Scored /\ boost_factors.ok)
    => /\ DOMAIN boost_factors.v = CompleteKeys
       /\ \A d \in TrackedDisciplines :
            boost_factors.v[d \o "_final_boost"]
            = RMul(boost_factors.v[d \o "_weight"], boost_factors.v["boost_factor"])

\* a value with a final boost that is the product of a weight 0.1 and a boost_factor 0.8
C17_Witness ==
    /\ Scored
    /\ boost_factors.ok
    /\ boost_factors.v["physics_weight"] = <<1, 10>>
    /\ boost_factors.v["boost_factor"] = <<4, 5>>
    /\ boost_factors.v["physics_final_boost"] = <<2, 25>>

\* C18 (as claimed): a call of compute_boost_factors that begins after a call
\* with the same record has ended returns, under the same configuration, the
\* value the earlier call returned, whatever happened between them
C18_SameRecordSameResult ==
    \A w \in Workers :
        (calls[w].pc = "done" /\ calls[w].prior # NoResult)
        => calls[w].result = calls[w].prior

\* C19: a scoring call that has ended has left the configuration and its record
\* as they were, and its result is the one the call gives when it runs alone
\* with the clock value it read, whatever the other worker did meanwhile
C19_CallsDoNotInterfere ==
    \A w \in Workers :
        calls[w].pc = "done"
        => /\ config = calls[w].seen
           /\ calls[w].record = calls[w].given
           /\ calls[w].result = compute_boost_factors(config, calls[w].given, calls[w].clock)

\* two calls for different records ran interleaved and both returned a value
C19_Witness ==
    \E v, w \in Workers :
        /\ v # w
        /\ calls[v].pc = "done" /\ calls[w].pc = "done"
        /\ calls[v].met /\ calls[w].met
        /\ calls[v].given # calls[w].given
        /\ calls[v].result.ok /\ calls[w].result.ok
        /\ calls[v].result # calls[w].result

\* C20 (as claimed): once handle_message_payload has scored a request, the row
\* stored for its identity holds every computed value, boost_factor among
\* them, equal to the value computed
C20_RowHoldsEveryComputedValue ==
    (Finished /\ boost_factors.ok)
    => \E row \in db :
         /\ row.bibcode = IdOf(request, "bibcode")
         /\ \A k \in DOMAIN boost_factors.v :
              k \in DOMAIN row.cols /\ row.cols[k] = boost_factors.v[k]

\* the tags classifications yields: its strings that are not empty, normalised
ClassificationTags(record) ==
    LET c == Get(record, "classifications", None)
    IN  IF c.t \in {"str", "list"}
        THEN {SpaceToUnderscore(Lower(AsTags(c)[i].s)) :
                 i \in {j \in DOMAIN AsTags(c) : AsTags(c)[j].s # ""}}
        ELSE {}

\* C21 (as claimed): the weights of a record whose classifications yield at
\* least one tag do not depend on bib_data.database, and a record whose
\* classifications yield no tag gets the weights it would get from
\* bib_data.database without any classifications
C21_ClassificationsBeforeDatabase ==
    (Scored /\ WellFormed(request) /\ Has(request, "bib_data"))
    => IF ClassificationTags(request) # {}
       THEN \A d \in {x \in Databases : x.t \in {"absent", "str", "list"}} :
              compute_collection_weights(config, WithBib(request, "database", d))
              = compute_collection_weights(config, request)
       ELSE compute_collection_weights(config, With(request, "classifications", Absent))
            = compute_collection_weights(config, request)

\* the rows the store holds for a bibcode
RowsOf(bibcode) == {row \in db : row.bibcode = bibcode}

\* C22 (as claimed): when a store made on its own ends, the store holds
\* exactly one row for its bibcode, that row holds the values just stored, and
\* the rows of the other bibcodes are as they were before the call
C22_OneRowPerBibcodeWithLatestValues ==
    [][\A w \in Workers :
        (stores[w].pc # "done" /\ stores'[w].pc = "done" /\ ~stores'[w].met)
        => /\ Cardinality({row \in db' : row.bibcode = stores[w].bibcode}) = 1
           /\ \A row \in {r \in db' : r.bibcode = stores[w].bibcode} :
                \A k \in StoredColumns : row.cols[k] = ColumnValues(stores[w].boost_factors)[k]
           /\ {row \in db' : row.bibcode # stores[w].bibcode}
              = {row \in stores[w].before : row.bibcode # stores[w].bibcode}]_vars

StoreOf(message, factors, rows) ==
    store_boost_factors(app_globals, rows, ResolveId(message, "bibcode").v,
                        ResolveId(message, "scix_id").v, factors)

\* C23: handle_message_payload sends a message only when the factors were
\* computed and stored without error, the message being the one for the
\* factors computed and the rows being those the store left; when the
\* computation or the store raises, no message is sent, no row changes, and
\* the call ends raised after logging "Error handling message payload"
C23_SentOnlyAfterStored ==
    [][(pc = "idle" /\ pc' = "finished")
       => /\ sent' # sent
             => /\ boost_factors'.ok
                /\ StoreOf(request', boost_factors'.v, db).ok
                /\ db' = StoreOf(request', boost_factors'.v, db).v
                /\ sent' = sent \o <<master_message(request', boost_factors'.v, now)>>
                /\ outcome' = "returned"
          /\ (\/ boost_factors' # NoResult /\ ~boost_factors'.ok
              \/ boost_factors'.ok /\ ~StoreOf(request', boost_factors'.v, db).ok)
             => /\ sent' = sent
                /\ db' = db
                /\ outcome' = "raised"
                /\ logged'[Len(logged')] = "Error handling message payload"]_vars

\* a message was scored, its store raised, and nothing was sent
C23_Witness ==
    /\ Finished
    /\ boost_factors.ok
    /\ ~StoreOf(request, boost_factors.v, db).ok
    /\ outcome = "raised"
    /\ sent = <<>>
    /\ logged = <<"Error indexing boost factors", "Error processing boost request",
                  "Error handling message payload">>

RECURSIVE Flatten(_)
\* the batches one after the other
Flatten(batches) ==
    IF batches = <<>> THEN <<>> ELSE Head(batches) \o Flatten(Tail(batches))

\* the records of the first n bibcodes of the run
RecordsOfFirst(n) == [k \in 1..n |-> record_data(run.bibcodes[k])]

\* process_batch has returned for the batch handed last
BatchReturned == run.pc \in {"loop", "done"} /\ run.handed # <<>>

\* the records taken from the list and not yet handed to process_batch
Waiting == IF run.pc = "loop" THEN run.batch ELSE <<>>

\* the indexes of the records whose compute task was submitted
Submitted == [k \in DOMAIN run.tasks |-> run.tasks[k].index]

\* C25: the batches handed to process_batch are, one after the other, the
\* records of the bibcodes taken so far less those still waiting in batch, so
\* at the end every bibcode was handed on once and in input order; no batch is
\* empty or longer than batch_size and every batch but the last has exactly
\* batch_size records; and when process_batch has returned, a compute task was
\* submitted for every record of the batch in order, and the result of every
\* task that was submitted was waited for, whatever raised in between
C25_BatchesCoverTheInputInOrder ==
    run.pc # "idle"
    => /\ Flatten(run.handed) \o Waiting = RecordsOfFirst(run.sent)
       /\ run.pc = "done" => run.sent = Len(run.bibcodes)
       /\ \A k \in DOMAIN run.handed :
            /\ Len(run.handed[k]) \in 1..run.batch_size
            /\ k < Len(run.handed) => Len(run.handed[k]) = run.batch_size
       /\ BatchReturned
          => /\ run.computing = [k \in 1..Len(run.records_batch) |-> k - 1]
             /\ run.collected = Submitted

\* of four bibcodes the first three have been through process_batch as one
\* batch and the fourth is still to be taken: submitting the first record
\* raised, waiting for the second raised, and the third was computed, stored
\* and sent
C25_Witness ==
    /\ BatchReturned
    /\ run.pc = "loop"
    /\ Len(run.bibcodes) = 4
    /\ run.batch_size = 3
    /\ Len(run.handed) = 1
    /\ Len(run.records_batch) = 3
    /\ run.computing = <<0, 1, 2>>
    /\ Submitted = <<1, 2>>
    /\ run.collected = <<1, 2>>
    /\ run.storing = <<2>>
    /\ run.sending = <<2>>

====
